---- MODULE Spec2Model ----
(***************************************************************************)
(* The inventory service of src/: one table of inventory items (models.py) *)
(* behind five request handlers (main.py) that call the store operations   *)
(* of crud.py.  Requests of several clients interleave: a handler's         *)
(* queries and its store write are separate steps, each store call being   *)
(* one transaction.                                                        *)
(***************************************************************************)
EXTENDS Integers, Sequences, FiniteSets, TLC

\* Bounds of the model.
MaxId == 2
MaxRequests == 2
MaxSeqRequests == 4
NumClients == 2

\* Field(..., min_length=1, max_length=100) and Field(None, max_length=500).
MinNameLen == 1
MaxNameLen == 100
MaxDescLen == 500

\* Status codes of the handlers (fastapi.status) and of the framework.
HTTP_200_OK == 200
HTTP_201_CREATED == 201
HTTP_204_NO_CONTENT == 204
HTTP_404_NOT_FOUND == 404
HTTP_409_CONFLICT == 409
HTTP_422_UNPROCESSABLE == 422
HTTP_500_INTERNAL_SERVER_ERROR == 500

VARIABLES inventory_items, assigned, pc, req, db_item_name, resp, done

vars == <<inventory_items, assigned, pc, req, db_item_name, resp, done>>

Clients == 1..NumClients
ItemIds == 1..MaxId

\* An optional value: None, or a value v as <<v>>.
None == <<>>
Some(v) == <<v>>

LongName == "nnnnnnnnnnnnnnnnnnnnnnnnnnnnnnnnnnnnnnnnnnnnnnnnnnnnnnnnnnnnnnnnnnnnnnnnnnnnnnnnnnnnnnnnnnnnnnnnnnnnn"
LongDesc == "xxxxxxxxxxxxxxxxxxxxxxxxxxxxxxxxxxxxxxxxxxxxxxxxxxxxxxxxxxxxxxxxxxxxxxxxxxxxxxxxxxxxxxxxxxxxxxxxxxxxxxxxxxxxxxxxxxxxxxxxxxxxxxxxxxxxxxxxxxxxxxxxxxxxxxxxxxxxxxxxxxxxxxxxxxxxxxxxxxxxxxxxxxxxxxxxxxxxxxxxxxxxxxxxxxxxxxxxxxxxxxxxxxxxxxxxxxxxxxxxxxxxxxxxxxxxxxxxxxxxxxxxxxxxxxxxxxxxxxxxxxxxxxxxxxxxxxxxxxxxxxxxxxxxxxxxxxxxxxxxxxxxxxxxxxxxxxxxxxxxxxxxxxxxxxxxxxxxxxxxxxxxxxxxxxxxxxxxxxxxxxxxxxxxxxxxxxxxxxxxxxxxxxxxxxxxxxxxxxxxxxxxxxxxxxxxxxxxxxxxxxxxxxxxxxxxxxxxxxxxxxxxxxxxxxxxxxxxxxxxxxxxxxxxxxxxxxxxxxxxx"

Keys == {"name", "description", "status"}

\* What a JSON body can carry for each key when the key is present.
NameInputs == {None, Some("a"), Some("b"), Some(""), Some(LongName)}
DescInputs == {None, Some("d"), Some(LongDesc)}
StatusInputs == {None, Some(TRUE), Some(FALSE)}

\* A request body: the keys it carries (pydantic's model_fields_set) and
\* their values; a key that is not carried reads None.
Bodies ==
    { [set |-> S, name |-> n, description |-> d, status |-> s] :
        S \in SUBSET Keys, n \in NameInputs, d \in DescInputs, s \in StatusInputs }

WellFormed(body) ==
    /\ ("name" \notin body.set => body.name = None)
    /\ ("description" \notin body.set => body.description = None)
    /\ ("status" \notin body.set => body.status = None)

RequestBodies == { b \in Bodies : WellFormed(b) }

SkipLimit == {-1, 0, 1}

NoBody == [set |-> {}, name |-> None, description |-> None, status |-> None]
(***************************************************************************)
(* schemas.py: validation of the request bodies.                           *)
(***************************************************************************)
ValidName(n) == Len(n) >= MinNameLen /\ Len(n) <= MaxNameLen

ValidDescription(d) == d = None \/ Len(d[1]) <= MaxDescLen

\* InventoryItemCreate: name is a required str, description an optional
\* str, status a bool that may be left out.
ValidCreate(body) ==
    /\ "name" \in body.set
    /\ body.name # None
    /\ ValidName(body.name[1])
    /\ ValidDescription(body.description)
    /\ ("status" \in body.set => body.status # None)

\* The creation model with status defaulting to False.
InventoryItemCreateInactive(body) ==
    [name |-> body.name,
     description |-> body.description,
     status |-> IF "status" \in body.set THEN body.status ELSE Some(FALSE)]

\* The validated creation model: status defaults to True, description to None.
InventoryItemCreate(body) ==
    [name |-> body.name,
     description |-> body.description,
     status |-> IF "status" \in body.set THEN body.status ELSE Some(TRUE)]

\* InventoryItemUpdate: every field Optional, the bounds still apply to a
\* name or description that is given.
ValidUpdate(body) ==
    /\ (body.name # None => ValidName(body.name[1]))
    /\ ValidDescription(body.description)

\* item.model_dump(exclude_unset=True): the fields the request carried.
model_dump_all(item) == Keys

model_dump(item) == item.set

(***************************************************************************)
(* models.py and crud.py: the table and the store operations.  A row is    *)
(* [name, description, status], each column an optional value; the table   *)
(* maps the ids in use to their rows.                                      *)
(***************************************************************************)
Max(S) == CHOOSE x \in S : \A y \in S : y <= x

Min(S) == CHOOSE x \in S : \A y \in S : x <= y

\* The ORM object of row i.
Item(items, i) ==
    [id |-> i, name |-> items[i].name,
     description |-> items[i].description, status |-> items[i].status]

\* id = Column(Integer, primary_key=True) on SQLite: the rowid, one more
\* than the largest rowid in the table.
NextRowidByCount(items) == Cardinality(DOMAIN items) + 1

NextRowid(items) == IF DOMAIN items = {} THEN 1 ELSE Max(DOMAIN items) + 1

\* The constraints of the table on row `row` stored under id i:
\* name unique and not null, status not null.
IntegrityErrorNoUnique(items, i, row) ==
    \/ row.name = None
    \/ row.status = None

IntegrityError(items, i, row) ==
    \/ row.name = None
    \/ row.status = None
    \/ \E j \in DOMAIN items \ {i} : items[j].name = row.name

\* A lookup whose query lost its filter on the id.
get_item_unfiltered(items, item_id) ==
    IF DOMAIN items = {} THEN None ELSE Some(Item(items, Min(DOMAIN items)))

get_item(items, item_id) ==
    IF item_id \in DOMAIN items THEN Some(Item(items, item_id)) ELSE None

get_item_by_name(items, name) ==
    LET found == {i \in DOMAIN items : items[i].name = name}
    IN  IF found = {} THEN None ELSE Some(Item(items, Min(found)))

\* The ids of the table in rowid order.
RECURSIVE Ordered(_)
Ordered(S) == IF S = {} THEN <<>> ELSE <<Min(S)>> \o Ordered(S \ {Min(S)})

\* query.offset(skip).limit(limit).all(): SQLite reads a negative OFFSET
\* as 0 and a negative LIMIT as no limit.
get_items(items, skip, limit) ==
    LET ids == Ordered(DOMAIN items)
        first == IF skip < 0 THEN 1 ELSE skip + 1
        last == IF limit < 0 THEN Len(ids)
                ELSE IF first + limit - 1 > Len(ids) THEN Len(ids)
                ELSE first + limit - 1
    IN  [k \in 1..(IF last >= first THEN last - first + 1 ELSE 0) |->
            Item(items, ids[first + k - 1])]

\* create_item: add, commit, refresh; on IntegrityError roll back and
\* return None.  The result is the returned object and the table after it.
create_item(items, item) ==
    LET i == NextRowid(items)
        row == [name |-> item.name, description |-> item.description,
                status |-> item.status]
    IN  IF IntegrityError(items, i, row)
        THEN [db_item |-> None, items |-> items]
        ELSE LET after == (i :> row) @@ items
             IN  [db_item |-> Some(Item(after, i)), items |-> after]

\* for key, value in update_data.items(): setattr(db_item, key, value)
SetAttrs(row, item, update_data) ==
    [name |-> IF "name" \in update_data THEN item.name ELSE row.name,
     description |-> IF "description" \in update_data
                     THEN item.description ELSE row.description,
     status |-> IF "status" \in update_data THEN item.status ELSE row.status]

\* A store update that keeps, on a constraint violation, the columns that
\* pass their own constraint.
update_item_partial(items, item_id, item) ==
    IF item_id \notin DOMAIN items
    THEN [db_item |-> None, items |-> items]
    ELSE LET row == SetAttrs(items[item_id], item, model_dump(item))
         IN  IF IntegrityError(items, item_id, row)
             THEN [db_item |-> None,
                   items |-> [items EXCEPT ![item_id].description = row.description]]
             ELSE LET after == [items EXCEPT ![item_id] = row]
                  IN  [db_item |-> Some(Item(after, item_id)), items |-> after]

\* update_item: query the row, set the given fields, commit, refresh; None
\* when the row is gone, and on IntegrityError roll back and return None.
update_item(items, item_id, item) ==
    IF item_id \notin DOMAIN items
    THEN [db_item |-> None, items |-> items]
    ELSE LET row == SetAttrs(items[item_id], item, model_dump(item))
         IN  IF IntegrityError(items, item_id, row)
             THEN [db_item |-> None, items |-> items]
             ELSE LET after == [items EXCEPT ![item_id] = row]
                  IN  [db_item |-> Some(Item(after, item_id)), items |-> after]

\* A delete that reports the row and leaves it in the table.
delete_item_keep(items, item_id) ==
    IF item_id \notin DOMAIN items
    THEN [db_item |-> None, items |-> items]
    ELSE [db_item |-> Some(Item(items, item_id)), items |-> items]

\* delete_item: query the row, delete, commit; None when there is no row.
delete_item(items, item_id) ==
    IF item_id \notin DOMAIN items
    THEN [db_item |-> None, items |-> items]
    ELSE [db_item |-> Some(Item(items, item_id)),
          items |-> [i \in DOMAIN items \ {item_id} |-> items[i]]]
(***************************************************************************)
(* main.py: the request handlers.  A step that completes a request sets    *)
(* resp to its response, with the path or query parameters and the         *)
(* validated body the handler was called with (a request that fails        *)
(* validation never reaches its handler); any other step leaves resp at    *)
(* NoResponse.  done counts the completed requests.                        *)
(***************************************************************************)
Response(op, params, item, code, detail, body) ==
    [op |-> op, params |-> params, item |-> item,
     code |-> code, detail |-> detail, body |-> body]

NoResponse == Response("none", <<>>, NoBody, 0, "", <<>>)

Respond(op, params, item, code, detail, body) ==
    /\ resp' = Response(op, params, item, code, detail, body)
    /\ done' = done + 1

Pending ==
    /\ resp' = NoResponse
    /\ done' = done

NoRequest == [id |-> 0, item |-> NoBody]

Init ==
    /\ inventory_items = <<>>
    /\ assigned = {}
    /\ pc = [r \in Clients |-> "idle"]
    /\ req = [r \in Clients |-> NoRequest]
    /\ db_item_name = [r \in Clients |-> None]
    /\ resp = NoResponse
    /\ done = 0

\* POST /items/ up to the call of crud.create_item: validation of the body,
\* then the lookup of the name.
CreateBegin(r, body) ==
    /\ pc[r] = "idle"
    /\ IF ~ValidCreate(body)
       THEN /\ Respond("create", <<>>, NoBody, HTTP_422_UNPROCESSABLE,
                       "validation error", <<>>)
            /\ UNCHANGED <<pc, req>>
       ELSE IF get_item_by_name(inventory_items, InventoryItemCreate(body).name) # None
       THEN /\ Respond("create", <<>>, body, HTTP_409_CONFLICT,
                       "Item with this name already exists", <<>>)
            /\ UNCHANGED <<pc, req>>
       ELSE /\ pc' = [pc EXCEPT ![r] = "create_write"]
            /\ req' = [req EXCEPT ![r] = [id |-> 0, item |-> body]]
            /\ Pending
    /\ UNCHANGED <<inventory_items, assigned, db_item_name>>

\* POST /items/ from the call of crud.create_item to the response.
CreateWrite(r) ==
    /\ pc[r] = "create_write"
    /\ LET body == req[r].item
           created == create_item(inventory_items, InventoryItemCreate(body))
       IN  /\ created.db_item # None => created.db_item[1].id <= MaxId
           /\ inventory_items' = created.items
           /\ IF created.db_item = None
              THEN /\ Respond("create", <<>>, body, HTTP_500_INTERNAL_SERVER_ERROR,
                              "Could not create item due to an unexpected error.", <<>>)
                   /\ UNCHANGED assigned
              ELSE /\ Respond("create", <<>>, body, HTTP_201_CREATED, "",
                              created.db_item)
                   /\ assigned' = assigned \cup {created.db_item[1].id}
    /\ pc' = [pc EXCEPT ![r] = "idle"]
    /\ req' = [req EXCEPT ![r] = NoRequest]
    /\ UNCHANGED db_item_name

\* GET /items/
ReadItems(skip, limit) ==
    /\ Respond("list", <<skip, limit>>, NoBody, HTTP_200_OK, "",
               get_items(inventory_items, skip, limit))
    /\ UNCHANGED <<inventory_items, assigned, pc, req, db_item_name>>

\* GET /items/{item_id}
ReadItem(item_id) ==
    /\ LET db_item == get_item(inventory_items, item_id)
       IN  IF db_item = None
           THEN Respond("read", <<item_id>>, NoBody, HTTP_404_NOT_FOUND,
                        "Item not found", <<>>)
           ELSE Respond("read", <<item_id>>, NoBody, HTTP_200_OK, "", db_item)
    /\ UNCHANGED <<inventory_items, assigned, pc, req, db_item_name>>

\* PUT /items/{item_id} up to the name check: validation of the body, then
\* the lookup of the item.
UpdateBegin(r, item_id, body) ==
    /\ pc[r] = "idle"
    /\ LET db_item == get_item(inventory_items, item_id)
       IN  IF ~ValidUpdate(body)
           THEN /\ Respond("update", <<item_id>>, NoBody, HTTP_422_UNPROCESSABLE,
                           "validation error", <<>>)
                /\ UNCHANGED <<pc, req, db_item_name>>
           ELSE IF db_item = None
           THEN /\ Respond("update", <<item_id>>, body, HTTP_404_NOT_FOUND,
                           "Item not found", <<>>)
                /\ UNCHANGED <<pc, req, db_item_name>>
           ELSE /\ pc' = [pc EXCEPT ![r] = "update_check"]
                /\ req' = [req EXCEPT ![r] = [id |-> item_id, item |-> body]]
                /\ db_item_name' = [db_item_name EXCEPT ![r] = db_item[1].name]
                /\ Pending
    /\ UNCHANGED <<inventory_items, assigned>>

\* The handler without its check of the new name.
UpdateCheckSkipped(r) ==
    /\ pc[r] = "update_check"
    /\ pc' = [pc EXCEPT ![r] = "update_write"]
    /\ Pending
    /\ UNCHANGED <<req, db_item_name, inventory_items, assigned>>

\* PUT /items/{item_id}: the check of the new name against the other items.
UpdateCheck(r) ==
    /\ pc[r] = "update_check"
    /\ LET item == req[r].item
           item_id == req[r].id
           existing == get_item_by_name(inventory_items, item.name)
       IN  IF /\ item.name # None
              /\ item.name # db_item_name[r]
              /\ existing # None
              /\ existing[1].id # item_id
           THEN /\ Respond("update", <<item_id>>, item, HTTP_409_CONFLICT,
                           "Another item with this name already exists", <<>>)
                /\ pc' = [pc EXCEPT ![r] = "idle"]
                /\ req' = [req EXCEPT ![r] = NoRequest]
                /\ db_item_name' = [db_item_name EXCEPT ![r] = None]
           ELSE /\ pc' = [pc EXCEPT ![r] = "update_write"]
                /\ Pending
                /\ UNCHANGED <<req, db_item_name>>
    /\ UNCHANGED <<inventory_items, assigned>>

\* PUT /items/{item_id} from the call of crud.update_item to the response.
UpdateWrite(r) ==
    /\ pc[r] = "update_write"
    /\ LET item == req[r].item
           item_id == req[r].id
           updated == update_item(inventory_items, item_id, item)
       IN  /\ inventory_items' = updated.items
           /\ IF updated.db_item = None
              THEN Respond("update", <<item_id>>, item, HTTP_500_INTERNAL_SERVER_ERROR,
                           "Could not update item due to an unexpected error.", <<>>)
              ELSE Respond("update", <<item_id>>, item, HTTP_200_OK, "",
                           updated.db_item)
    /\ pc' = [pc EXCEPT ![r] = "idle"]
    /\ req' = [req EXCEPT ![r] = NoRequest]
    /\ db_item_name' = [db_item_name EXCEPT ![r] = None]
    /\ UNCHANGED assigned

\* DELETE /items/{item_id}
DeleteItem(item_id) ==
    /\ LET deleted == delete_item(inventory_items, item_id)
       IN  /\ inventory_items' = deleted.items
           /\ IF deleted.db_item = None
              THEN Respond("delete", <<item_id>>, NoBody, HTTP_404_NOT_FOUND,
                           "Item not found", <<>>)
              ELSE Respond("delete", <<item_id>>, NoBody, HTTP_204_NO_CONTENT, "", <<>>)
    /\ UNCHANGED <<assigned, pc, req, db_item_name>>

InFlight == {r \in Clients : pc[r] # "idle"}

(***************************************************************************)
(* Spec: the requests of the clients interleave step by step.  A run       *)
(* takes up to MaxRequests requests, their bodies drawn from               *)
(* ConcurrentBodies.                                                       *)
(***************************************************************************)
ConcurrentBodies ==
    { b \in RequestBodies :
        /\ b.name # Some(LongName)
        /\ b.description \in {None, Some("d")}
        /\ ("description" \in b.set => b.description # None)
        /\ b.status # Some(TRUE) }

Open == done + Cardinality(InFlight) < MaxRequests

Next ==
    \/ \E r \in Clients, body \in ConcurrentBodies : Open /\ CreateBegin(r, body)
    \/ \E r \in Clients : CreateWrite(r)
    \/ \E skip \in SkipLimit, limit \in SkipLimit : Open /\ ReadItems(skip, limit)
    \/ \E item_id \in ItemIds : Open /\ ReadItem(item_id)
    \/ \E r \in Clients, item_id \in ItemIds, body \in ConcurrentBodies :
          Open /\ UpdateBegin(r, item_id, body)
    \/ \E r \in Clients : UpdateCheck(r)
    \/ \E r \in Clients : UpdateWrite(r)
    \/ \E item_id \in ItemIds : Open /\ DeleteItem(item_id)

Spec == Init /\ [][Next]_vars

(***************************************************************************)
(* SpecSeq: the requests run one at a time, each to its response before    *)
(* the next begins.  A run takes up to MaxSeqRequests requests, their      *)
(* bodies drawn from RequestBodies.                                        *)
(***************************************************************************)
OpenSeq == InFlight = {} /\ done < MaxSeqRequests

NextSeq ==
    \/ \E body \in RequestBodies : OpenSeq /\ CreateBegin(1, body)
    \/ CreateWrite(1)
    \/ \E skip \in SkipLimit, limit \in SkipLimit : OpenSeq /\ ReadItems(skip, limit)
    \/ \E item_id \in ItemIds : OpenSeq /\ ReadItem(item_id)
    \/ \E item_id \in ItemIds, body \in RequestBodies :
          OpenSeq /\ UpdateBegin(1, item_id, body)
    \/ UpdateCheck(1)
    \/ UpdateWrite(1)
    \/ \E item_id \in ItemIds : OpenSeq /\ DeleteItem(item_id)

SpecSeq == Init /\ [][NextSeq]_vars
(***************************************************************************)
(* Properties.  Completed holds of a step that completes a request; the    *)
(* response, the parameters and the body of that request are resp'.        *)
(***************************************************************************)
Completed == done' # done

Failures ==
    {HTTP_404_NOT_FOUND, HTTP_409_CONFLICT, HTTP_422_UNPROCESSABLE,
     HTTP_500_INTERNAL_SERVER_ERROR}

HoldersOf(items, name) == {i \in DOMAIN items : items[i].name = name}

\* Every other row of the table is the same after the step as before it.
OthersUnchanged(item_id) ==
    /\ DOMAIN inventory_items' \ {item_id} = DOMAIN inventory_items \ {item_id}
    /\ \A j \in DOMAIN inventory_items \ {item_id} :
          inventory_items'[j] = inventory_items[j]

C2_RacingCreates ==
    [][(Completed /\ resp'.op = "create" /\ resp'.code # HTTP_422_UNPROCESSABLE)
        => /\ IF HoldersOf(inventory_items, resp'.item.name) # {}
              THEN /\ resp'.code = HTTP_409_CONFLICT
                   /\ resp'.detail = "Item with this name already exists"
              ELSE resp'.code = HTTP_201_CREATED
           /\ Cardinality(HoldersOf(inventory_items', resp'.item.name)) = 1]_vars

\* C3: a successful update leaves every omitted field of the item at its
\* stored value and sets every supplied field to the supplied value; the
\* item keeps its id and every other item is unchanged.
C3_PartialUpdate ==
    [][(Completed /\ resp'.op = "update" /\ resp'.code = HTTP_200_OK)
        => LET item_id == resp'.params[1]
               item == resp'.item
               old == inventory_items[item_id]
               new == inventory_items'[item_id]
           IN  /\ item_id \in DOMAIN inventory_items
               /\ item_id \in DOMAIN inventory_items'
               /\ new.name = IF "name" \in item.set THEN item.name ELSE old.name
               /\ new.description = IF "description" \in item.set
                                    THEN item.description ELSE old.description
               /\ new.status = IF "status" \in item.set THEN item.status ELSE old.status
               /\ resp'.body[1].id = item_id
               /\ OthersUnchanged(item_id)]_vars

\* C3 witness: an update that carried description and status and no name
\* succeeded, as in test_update_item.
C3_Witness ==
    /\ resp.op = "update"
    /\ resp.code = HTTP_200_OK
    /\ resp.item.set = {"description", "status"}

\* C4: an update of an existing item X whose new name is the name of
\* another stored item Y fails with 409 at its name check, and the table,
\* X and Y included, is unchanged.
C4_RenameConflict ==
    [][\A r \in Clients :
        (/\ pc[r] = "update_check"
         /\ req[r].id \in DOMAIN inventory_items
         /\ HoldersOf(inventory_items, req[r].item.name) \ {req[r].id} # {})
        => /\ Completed
           /\ resp'.op = "update"
           /\ resp'.params = <<req[r].id>>
           /\ resp'.code = HTTP_409_CONFLICT
           /\ inventory_items' = inventory_items]_vars

\* C4 witness: an update was refused with 409 while two items are stored.
C4_Witness ==
    /\ resp.op = "update"
    /\ resp.code = HTTP_409_CONFLICT
    /\ Cardinality(DOMAIN inventory_items) = 2

\* C5: a read, an update that passed validation and a delete of an id that
\* no stored item has each fail with 404 "Item not found" and leave the
\* table unchanged; no update of such an id goes on to its name check.
C5_NotFound ==
    [][/\ (/\ Completed
           /\ resp'.op \in {"read", "update", "delete"}
           /\ resp'.code # HTTP_422_UNPROCESSABLE
           /\ resp'.params[1] \notin DOMAIN inventory_items)
          => /\ resp'.code = HTTP_404_NOT_FOUND
             /\ resp'.detail = "Item not found"
             /\ inventory_items' = inventory_items
       /\ \A r \in Clients :
             (pc[r] = "idle" /\ pc'[r] = "update_check")
                => req'[r].id \in DOMAIN inventory_items]_vars

\* C5 witness: an update with a non-empty valid body got 404 while another
\* item is stored.
C5_Witness ==
    /\ resp.op = "update"
    /\ resp.code = HTTP_404_NOT_FOUND
    /\ resp.item.set # {}
    /\ DOMAIN inventory_items # {}

\* C6: a create whose name no stored item holds succeeds with 201; the
\* returned item has the name, description and status of the input (status
\* True and description None when left out) and an id no stored item had;
\* the lookup of that id, and a read request that follows, return the same
\* record.  A create of such a name never ends 409 or 500.
C6_CreateRoundTrip ==
    [][/\ \A r \in Clients :
            (/\ pc[r] = "create_write"
             /\ HoldersOf(inventory_items, req[r].item.name) = {})
            => LET body == req[r].item
               IN  /\ Completed
                   /\ resp'.op = "create"
                   /\ resp'.code = HTTP_201_CREATED
                   /\ Len(resp'.body) = 1
                   /\ resp'.body[1].name = body.name
                   /\ resp'.body[1].description =
                         (IF "description" \in body.set THEN body.description ELSE None)
                   /\ resp'.body[1].status =
                         (IF "status" \in body.set THEN body.status ELSE Some(TRUE))
                   /\ resp'.body[1].id \notin DOMAIN inventory_items
                   /\ get_item(inventory_items', resp'.body[1].id) = resp'.body
       /\ (/\ Completed
           /\ resp'.op = "create"
           /\ resp'.code \in {HTTP_409_CONFLICT, HTTP_500_INTERNAL_SERVER_ERROR})
          => HoldersOf(inventory_items, resp'.item.name) # {}
       /\ (/\ resp.op = "create"
           /\ resp.code = HTTP_201_CREATED
           /\ Completed
           /\ resp'.op = "read"
           /\ resp'.params = <<resp.body[1].id>>)
          => /\ resp'.code = HTTP_200_OK
             /\ resp'.body = resp.body]_vars

\* C6 witness: a create that left out status and description returned an
\* active item with no description.
C6_Witness ==
    /\ resp.op = "create"
    /\ resp.code = HTTP_201_CREATED
    /\ resp.item.set = {"name"}
    /\ resp.body[1].status = Some(TRUE)
    /\ resp.body[1].description = None

\* C7: a delete that succeeds with 204 removes the item: the lookup of its
\* id finds nothing, no list result shows it, every other item is
\* unchanged, and a read or list request that follows next ends 404 or
\* does not show it.
C7_DeleteThenRead ==
    [][/\ (Completed /\ resp'.op = "delete" /\ resp'.code = HTTP_204_NO_CONTENT)
          => LET item_id == resp'.params[1]
             IN  /\ item_id \in DOMAIN inventory_items
                 /\ item_id \notin DOMAIN inventory_items'
                 /\ get_item(inventory_items', item_id) = None
                 /\ \A skip \in SkipLimit, limit \in SkipLimit :
                       LET items == get_items(inventory_items', skip, limit)
                       IN  \A k \in 1..Len(items) : items[k].id # item_id
                 /\ OthersUnchanged(item_id)
       /\ (/\ resp.op = "delete"
           /\ resp.code = HTTP_204_NO_CONTENT
           /\ Completed
           /\ resp'.op = "read"
           /\ resp'.params = resp.params)
          => /\ resp'.code = HTTP_404_NOT_FOUND
             /\ resp'.detail = "Item not found"
       /\ (/\ resp.op = "delete"
           /\ resp.code = HTTP_204_NO_CONTENT
           /\ Completed
           /\ resp'.op = "list")
          => \A k \in 1..Len(resp'.body) : resp'.body[k].id # resp.params[1]]_vars

\* C7 witness: a delete succeeded and another item is still stored.
C7_Witness ==
    /\ resp.op = "delete"
    /\ resp.code = HTTP_204_NO_CONTENT
    /\ DOMAIN inventory_items # {}

\* C8 as stated: the id of a newly created item differs from the id of
\* every item created earlier, stored or deleted.
C8_NeverReused ==
    [][(Completed /\ resp'.op = "create" /\ resp'.code = HTTP_201_CREATED)
        => resp'.body[1].id \notin assigned]_vars

\* C8 as amended: the id of a newly created item differs from the id of
\* every item that is stored when it is created.
C8_NoLiveCollision ==
    [][(Completed /\ resp'.op = "create" /\ resp'.code = HTTP_201_CREATED)
        => /\ resp'.body[1].id \notin DOMAIN inventory_items
           /\ OthersUnchanged(resp'.body[1].id)]_vars

\* C8 witness: an item was created beside a stored one.
C8_Witness ==
    /\ resp.op = "create"
    /\ resp.code = HTTP_201_CREATED
    /\ Cardinality(DOMAIN inventory_items) = 2

\* C9: a step that completes a request with 422, 404, 409 or 500 leaves
\* the table as it was, and so does every step that completes no request:
\* the table changes only in the step that completes a request with
\* success.
C9_FailureLeavesStore ==
    [][/\ (Completed /\ resp'.code \in Failures)
          => inventory_items' = inventory_items
       /\ ~Completed => inventory_items' = inventory_items]_vars

\* C9 witness: the store update of a request hit a constraint and the
\* request ended 500.
C9_Witness ==
    /\ resp.op = "update"
    /\ resp.code = HTTP_500_INTERNAL_SERVER_ERROR
    /\ resp.params[1] \in DOMAIN inventory_items

\* C10: a list request with a negative skip or limit fails with 422 and
\* returns no items; one with non-negative skip and limit succeeds with
\* 200.
C10_ListBounds ==
    [][(Completed /\ resp'.op = "list")
        => IF resp'.params[1] < 0 \/ resp'.params[2] < 0
           THEN resp'.code = HTTP_422_UNPROCESSABLE /\ resp'.body = <<>>
           ELSE resp'.code = HTTP_200_OK]_vars
\* C11: when requests run one at a time no update request ends 500: once
\* the lookup of the id has found the item and the name check has passed,
\* the store update of a validated body succeeds and the request returns
\* 200 with the updated item.
C11_UpdateNeverInternalError ==
    [][/\ (Completed /\ resp'.op = "update")
          => resp'.code # HTTP_500_INTERNAL_SERVER_ERROR
       /\ \A r \in Clients :
             pc[r] = "update_write"
                => /\ Completed
                   /\ resp'.op = "update"
                   /\ resp'.code = HTTP_200_OK
                   /\ resp'.body = get_item(inventory_items', req[r].id)]_vars
====
